---- MODULE Spec2Model ----
(***************************************************************************)
(* Model of the request-to-stream pipeline of src/app.py: the URL          *)
(* validator, get_video_info, stream_video, the two Flask routes and the   *)
(* response generator of /api/download.                                    *)
(*                                                                         *)
(* Text is modelled as a sequence of one-character strings wherever the    *)
(* code inspects characters (URLs, titles, resolution labels, the          *)
(* "resolution" query parameter).  The user-facing messages of the source  *)
(* are Chinese literals; they appear here in English (as in the            *)
(* specification), one string per literal, and a message built with an     *)
(* f-string is the sequence of its parts.                                  *)
(***************************************************************************)
EXTENDS Integers, Sequences, FiniteSets, TLC

(***************************************************************************)
(* Program constants and bounds                                            *)
(***************************************************************************)
MAX_VIDEO_DURATION == 3600

chunk_size == 1048576

ALLOWED_DOMAINS ==
  { <<"y","o","u","t","u","b","e",".","c","o","m">>,
    <<"y","o","u","t","u",".","b","e">> }

\* The buffers that are streamed hold up to MaxFullChunks full chunks
\* and a remainder.
MaxFullChunks == 2

(***************************************************************************)
(* Characters                                                              *)
(***************************************************************************)
Digits == {"0","1","2","3","4","5","6","7","8","9"}

Letters ==
  {"a","b","c","d","e","f","g","h","i","j","k","l","m",
   "n","o","p","q","r","s","t","u","v","w","x","y","z",
   "A","B","C","D","E","F","G","H","I","J","K","L","M",
   "N","O","P","Q","R","S","T","U","V","W","X","Y","Z"}

\* \w of Python's re for the characters that occur here
WordChars == Letters \cup Digits \cup {"_"}

\* the class [0-9A-Za-z_-] of the video-ID pattern
IdChars == Letters \cup Digits \cup {"_", "-"}

DigitVal ==
  "0" :> 0 @@ "1" :> 1 @@ "2" :> 2 @@ "3" :> 3 @@ "4" :> 4 @@
  "5" :> 5 @@ "6" :> 6 @@ "7" :> 7 @@ "8" :> 8 @@ "9" :> 9

IsDigit(c) == c \in Digits

RECURSIVE DigitsToInt(_)
\* int(s) for a non-empty string of decimal digits
DigitsToInt(s) ==
  IF Len(s) = 0 THEN 0
  ELSE 10 * DigitsToInt(SubSeq(s, 1, Len(s) - 1)) + DigitVal[s[Len(s)]]

StartsWith(s, i, p) ==
  /\ i + Len(p) - 1 <= Len(s)
  /\ \A k \in 1..Len(p) : s[i + k - 1] = p[k]

EndsWith(s, d) ==
  /\ Len(d) <= Len(s)
  /\ SubSeq(s, Len(s) - Len(d) + 1, Len(s)) = d

(***************************************************************************)
(* is_valid_youtube_url                                                    *)
(***************************************************************************)
\* length of the longest run of characters other than "/" starting at i
RECURSIVE NonSlashRun(_, _)
NonSlashRun(s, i) ==
  IF i > Len(s) \/ s[i] = "/" THEN 0 ELSE 1 + NonSlashRun(s, i + 1)

\* The match of  https?://(www\.)?([^/]+)  anchored at i: the index where
\* group 2 starts, 0 when there is no match at i.  (www\.)? is greedy and
\* is given up only when nothing is left for [^/]+ .
DomainMatchAt(s, i) ==
  LET afterHttp == i + 4
      afterS == IF afterHttp <= Len(s) /\ s[afterHttp] = "s"
                THEN afterHttp + 1 ELSE afterHttp
      host == afterS + 3
  IN IF ~StartsWith(s, i, <<"h","t","t","p">>) THEN 0
     ELSE IF ~StartsWith(s, afterS, <<":","/","/">>) THEN 0
     ELSE IF StartsWith(s, host, <<"w","w","w",".">>)
               /\ NonSlashRun(s, host + 4) > 0 THEN host + 4
     ELSE IF NonSlashRun(s, host) > 0 THEN host
     ELSE 0

\* re.search(...).group(2): <<>> stands for "no match" (group 2 is never
\* empty when the pattern matches)
SearchDomain(s) ==
  LET hits == {i \in 1..Len(s) : DomainMatchAt(s, i) # 0}
  IN IF hits = {} THEN <<>>
     ELSE LET i == CHOOSE j \in hits : \A k \in hits : j <= k
              g == DomainMatchAt(s, i)
          IN SubSeq(s, g, g + NonSlashRun(s, g) - 1)

\* domain in ALLOWED_DOMAINS or any(domain.endswith(d) ...)
DomainAllowed(domain) ==
  \/ domain \in ALLOWED_DOMAINS
  \/ \E d \in ALLOWED_DOMAINS : EndsWith(domain, d)

\* re.search(r'(?:v=|\/)([0-9A-Za-z_-]{11})', url) finds a match
SearchVideoId(s) ==
  \E i \in 1..Len(s) :
    \/ /\ StartsWith(s, i, <<"v","=">>)
       /\ i + 12 <= Len(s)
       /\ \A k \in 2..12 : s[i + k] \in IdChars
    \/ /\ s[i] = "/"
       /\ i + 11 <= Len(s)
       /\ \A k \in 1..11 : s[i + k] \in IdChars

is_valid_youtube_url(u) ==
  LET domain == SearchDomain(u)
  IN IF domain = <<>> THEN FALSE        \* .group on None raises: except
     ELSE IF ~DomainAllowed(domain) THEN FALSE
     ELSE SearchVideoId(u)

(***************************************************************************)
(* The extractor (pytube) as seen by the code: what YouTube(url) answers   *)
(* for each video id.  A stream is the record of the attributes the code   *)
(* reads; "fault" says which exception the library raises and where:       *)
(* "fetch" is the first access to the video's data, "buffer" is            *)
(* stream_to_buffer.                                                       *)
(***************************************************************************)
NoFault == [kind |-> "none", at |-> "fetch", detail |-> ""]

Stream(itag, resolution, subtype, progressive, fps, filesize) ==
  [itag |-> itag, resolution |-> resolution,
   mime_type |-> <<"video", subtype>>, progressive |-> progressive,
   fps |-> fps, filesize |-> filesize]

R360 == <<"3","6","0","p">>

R720 == <<"7","2","0","p">>

R1080 == <<"1","0","8","0","p">>

S18 == Stream(18, R360, "mp4", TRUE, 30, 1000)

S22 == Stream(22, R720, "mp4", TRUE, 30, 2000)

S43 == Stream(43, R360, "webm", TRUE, 30, 900)

S137 == Stream(137, R1080, "mp4", FALSE, 30, 3000)

S59 == Stream(59, R360, "mp4", TRUE, 25, 1100)

TitleFoo == <<"F","o","o",":"," ","B","a","r","/","B","a","z">>

TitleSafe == <<"a","-","b","_","c",".","d"," ","e","1">>

TitleMarks == <<"Q","?","&","A","!">>

Video(length, title, streams, fault) ==
  [length |-> length, title |-> title, author |-> "author",
   thumbnail_url |-> "thumb", streams |-> streams, fault |-> fault]

VideoDB ==
  "dQw4w9WgXcQ" :> Video(MAX_VIDEO_DURATION, TitleFoo,
                         <<S18, S137, S22, S43>>, NoFault) @@
  "shortvideo1" :> Video(MAX_VIDEO_DURATION - 1, TitleSafe,
                         <<S22, S18, S59>>, NoFault) @@
  "longvideo01" :> Video(MAX_VIDEO_DURATION + 1, TitleMarks,
                         <<S18, S22>>, NoFault) @@
  "nostreams01" :> Video(10, TitleSafe, <<>>, NoFault) @@
  "agelimited1" :> Video(10, TitleSafe, <<S18>>,
       [kind |-> "AgeRestrictedError", at |-> "fetch",
        detail |-> "agelimited1 is age restricted"]) @@
  "neterror001" :> Video(10, TitleSafe, <<S18>>,
       [kind |-> "URLError", at |-> "fetch",
        detail |-> "urlopen error: connection refused"]) @@
  "neterrorlng" :> Video(MAX_VIDEO_DURATION + 1, TitleSafe, <<S18>>,
       [kind |-> "URLError", at |-> "fetch",
        detail |-> "urlopen error: connection refused"]) @@
  "bufferfail1" :> Video(10, TitleSafe, <<S18>>,
       [kind |-> "IncompleteRead", at |-> "buffer",
        detail |-> "IncompleteRead(0 bytes read)"])

\* YouTube(f"https://www.youtube.com/watch?v={video_id}"): an id the
\* service does not know is an unavailable video
YouTube(video_id) ==
  IF video_id \in DOMAIN VideoDB THEN VideoDB[video_id]
  ELSE Video(0, <<>>, <<>>,
             [kind |-> "VideoUnavailable", at |-> "fetch",
              detail |-> "video is unavailable"])

(***************************************************************************)
(* Messages                                                                *)
(***************************************************************************)
MsgMissingVideoId == "missing video ID parameter"

MsgMissingParams == "missing required parameters"

MsgInternal == "internal server error"

MsgAgeRestricted == "age-restricted, cannot download"

MsgUnavailable == "video unavailable or deleted"

MsgInvalidResolution == "invalid resolution"

MsgDuration == "duration exceeds limit (60 minutes)"

MsgProcessing == "error processing video: "

MsgInvalidLiteral == "invalid literal for int()"

\* f"... {str(e)}" of the two catch-all handlers
Wrap(msg) == <<MsgProcessing>> \o msg

(***************************************************************************)
(* StreamQuery: filter, order_by('resolution'), desc, get_by_itag          *)
(***************************************************************************)
Filter(streams) ==
  SelectSeq(streams, LAMBDA s : s.mime_type[2] = "mp4" /\ s.progressive)

\* the sort key of order_by for a string attribute: the integer made of
\* its digits
ResolutionKey(resolution) == DigitsToInt(SelectSeq(resolution, IsDigit))

\* insert x after the last element whose key is <= the key of x
RECURSIVE Insert(_, _)
Insert(sorted, x) ==
  IF Len(sorted) = 0 THEN <<x>>
  ELSE IF ResolutionKey(sorted[Len(sorted)].resolution)
             <= ResolutionKey(x.resolution)
       THEN Append(sorted, x)
       ELSE Append(Insert(SubSeq(sorted, 1, Len(sorted) - 1), x),
                   sorted[Len(sorted)])

RECURSIVE OrderBy(_)
\* sorted(): stable, ascending
OrderBy(streams) ==
  IF Len(streams) = 0 THEN <<>>
  ELSE Insert(OrderBy(SubSeq(streams, 1, Len(streams) - 1)),
              streams[Len(streams)])

Desc_Omitted(streams) == streams

\* fmt_streams[::-1]
Desc(streams) == [i \in 1..Len(streams) |-> streams[Len(streams) + 1 - i]]

\* 'type': mime_type.split('/')[1].upper()
Upper(subtype) ==
  CASE subtype = "mp4" -> "MP4"
    [] subtype = "webm" -> "WEBM"
    [] OTHER -> subtype

FormatStream(s) ==
  [itag |-> s.itag, resolution |-> s.resolution, filesize |-> s.filesize,
   fps |-> s.fps, type |-> Upper(s.mime_type[2])]

(***************************************************************************)
(* get_video_info                                                          *)
(***************************************************************************)
DurationExceeds_Inclusive(length) == length >= MAX_VIDEO_DURATION

DurationExceeds(length) == length > MAX_VIDEO_DURATION

NoInfo == <<>>

\* the loop over streams that builds formatted_streams
FormatStreams(streams) ==
  [i \in 1..Len(streams) |-> FormatStream(streams[i])]

\* The body of the try block, for the video object yt: exc is "none" on
\* return, else the class of the exception raised; calls lists the
\* accesses made to the extractor.
get_video_info_body(yt) ==
  IF yt.fault.kind # "none" /\ yt.fault.at = "fetch"
  THEN [exc |-> yt.fault.kind, msg |-> <<yt.fault.detail>>,
        info |-> NoInfo, calls |-> <<"YouTube", "length">>, log |-> <<>>]
  ELSE IF DurationExceeds(yt.length)
  THEN [exc |-> "ValueError", msg |-> <<MsgDuration>>,
        info |-> NoInfo, calls |-> <<"YouTube", "length">>, log |-> <<>>]
  ELSE [exc |-> "none", msg |-> <<>>,
        info |-> <<[title |-> yt.title, author |-> yt.author,
                    duration |-> yt.length,
                    thumbnail_url |-> yt.thumbnail_url,
                    streams |->
                      FormatStreams(Desc(OrderBy(Filter(yt.streams))))]>>,
        calls |-> <<"YouTube", "length", "streams", "title">>,
        log |-> <<>>]

\* The except clauses, for the outcome r of the try block: every
\* exception leaves as a ValueError
get_video_info_except(r) ==
  CASE r.exc = "none" -> r
    [] r.exc = "AgeRestrictedError" ->
         [r EXCEPT !.exc = "ValueError", !.msg = <<MsgAgeRestricted>>]
    [] r.exc = "VideoUnavailable" ->
         [r EXCEPT !.exc = "ValueError", !.msg = <<MsgUnavailable>>]
    [] OTHER ->
         [r EXCEPT !.exc = "ValueError", !.msg = Wrap(r.msg),
                   !.log = <<<<"get_video_info failed: ">> \o r.msg>>]

get_video_info(video_id) ==
  get_video_info_except(get_video_info_body(YouTube(video_id)))

(***************************************************************************)
(* stream_video                                                            *)
(***************************************************************************)
\* the characters re.sub(r'[^\w\-_. ]', '', title) keeps
KeptChars == WordChars \cup {"-", "_", ".", " "}

RECURSIVE ReSub_SpaceForRemoved(_)
ReSub_SpaceForRemoved(title) ==
  IF Len(title) = 0 THEN <<>>
  ELSE (IF Head(title) \in KeptChars THEN <<Head(title)>> ELSE <<" ">>)
         \o ReSub_SpaceForRemoved(Tail(title))

RECURSIVE ReSub(_)
\* re.sub(r'[^\w\-_. ]', '', title)
ReSub(title) ==
  IF Len(title) = 0 THEN <<>>
  ELSE (IF Head(title) \in KeptChars THEN <<Head(title)>> ELSE <<>>)
         \o ReSub(Tail(title))

\* f"{safe_title}_{stream.resolution}.mp4"
Filename(title, resolution) ==
  ReSub(title) \o <<"_">> \o resolution \o <<".","m","p","4">>

\* A query parameter: request.args.get(name) is None when it is absent
Param(present, val) == [present |-> present, val |-> val]

\* int(itag) succeeds
IsIntLiteral(itag) ==
  /\ itag.present
  /\ Len(itag.val) > 0
  /\ \A i \in 1..Len(itag.val) : IsDigit(itag.val[i])

\* yt.streams.get_by_itag(itag): the streams (none or one) of that itag
\* among all the streams of the video
get_by_itag(streams, itag) ==
  SelectSeq(streams, LAMBDA s : s.itag = DigitsToInt(itag.val))

\* io.BytesIO as the code uses it; the content is a number of bytes, a
\* chunk read from it is the interval <<from, to>> of byte offsets
NoByteStream == [allocated |-> 0, closes |-> 0, pos |-> 0, len |-> 0]

BytesIO == [allocated |-> 1, closes |-> 0, pos |-> 0, len |-> 0]

stream_to_buffer(bs, content) == [bs EXCEPT !.len = content, !.pos = content]

Seek_Omitted(bs) == bs

\* byte_stream.seek(0)
Seek(bs) == [bs EXCEPT !.pos = 0]

Min(a, b) == IF a <= b THEN a ELSE b

\* byte_stream.read(n): the chunk and the stream after the read
Read(bs, n) ==
  [chunk |-> <<bs.pos, Min(bs.pos + n, bs.len)>>,
   bs |-> [bs EXCEPT !.pos = Min(bs.pos + n, bs.len)]]

Close(bs) == [bs EXCEPT !.closes = bs.closes + 1]

\* an exception raised in the try block of stream_video
Raised(exc, msg, calls, bs) ==
  [exc |-> exc, msg |-> msg, calls |-> calls, byte_stream |-> bs,
   filename |-> <<>>, filesize |-> 0, log |-> <<>>]

\* The try block from the file name on, for the stream found; content is
\* the number of bytes the upstream delivers for the stream.  A fault of
\* stream_to_buffer strikes before the first byte is written.
stream_video_buffer(yt, stream, content) ==
  IF yt.fault.kind # "none" /\ yt.fault.at = "buffer"
  THEN Raised(yt.fault.kind, <<yt.fault.detail>>,
              <<"YouTube", "streams", "title", "stream_to_buffer">>, BytesIO)
  ELSE [exc |-> "none", msg |-> <<>>,
        calls |-> <<"YouTube", "streams", "title", "stream_to_buffer">>,
        byte_stream |-> Seek(stream_to_buffer(BytesIO, content)),
        filename |-> Filename(yt.title, stream.resolution),
        filesize |-> stream.filesize, log |-> <<>>]

\* "if not stream: raise", for the result of get_by_itag
stream_video_found(yt, found, content) ==
  IF Len(found) = 0
  THEN Raised("ValueError", <<MsgInvalidResolution>>,
              <<"YouTube", "streams">>, NoByteStream)
  ELSE stream_video_buffer(yt, found[1], content)

\* The body of the try block, for the video object yt
stream_video_body(yt, itag, content) ==
  IF yt.fault.kind # "none" /\ yt.fault.at = "fetch"
  THEN Raised(yt.fault.kind, <<yt.fault.detail>>,
              <<"YouTube", "streams">>, NoByteStream)
  ELSE IF ~IsIntLiteral(itag)
  THEN Raised("ValueError", <<MsgInvalidLiteral>>,
              <<"YouTube", "streams">>, NoByteStream)
  ELSE stream_video_found(yt, get_by_itag(yt.streams, itag), content)

\* except Exception: log and raise ValueError
stream_video_except(r) ==
  IF r.exc = "none" THEN r
  ELSE [r EXCEPT !.exc = "ValueError", !.msg = Wrap(r.msg),
                 !.log = <<<<"stream_video failed: ">> \o r.msg>>]

stream_video(video_id, itag, content) ==
  stream_video_except(stream_video_body(YouTube(video_id), itag, content))

(***************************************************************************)
(* The routes                                                              *)
(***************************************************************************)
Falsy_NoneOnly(p) == ~p.present

\* "not x" for a query parameter: None or the empty string
Falsy(p) == ~p.present \/ Len(p.val) = 0

Response(status, kind, error, info, headers) ==
  [status |-> status, kind |-> kind, error |-> error, info |-> info,
   headers |-> headers]

NoResponse == Response(0, "none", <<>>, <<>>, <<>>)

\* what a route leaves behind
Outcome(r, calls, lg, bs, g) ==
  [resp |-> r, calls |-> calls, log |-> lg, byte_stream |-> bs, gen |-> g]

\* video_info after the call of get_video_info with outcome r: the return
\* and the two except clauses
video_info_result(r) ==
  CASE r.exc = "none" ->
         Outcome(Response(200, "json", <<>>, r.info, <<>>),
                 r.calls, r.log, NoByteStream, "none")
    [] r.exc = "ValueError" ->
         Outcome(Response(400, "json", r.msg, <<>>, <<>>),
                 r.calls, r.log, NoByteStream, "none")
    [] OTHER ->
         Outcome(Response(500, "json", <<MsgInternal>>, <<>>, <<>>),
                 r.calls, Append(r.log, <<"API error: ">> \o r.msg),
                 NoByteStream, "none")

\* GET /api/video-info
video_info(video_id) ==
  IF Falsy(video_id)
  THEN Outcome(Response(400, "json", <<MsgMissingVideoId>>, <<>>, <<>>),
               <<>>, <<>>, NoByteStream, "none")
  ELSE video_info_result(get_video_info(video_id.val))

\* download after the call of stream_video with outcome r: on success the
\* response holds the generator, which has not run yet
download_result(r) ==
  CASE r.exc = "none" ->
         Outcome(Response(200, "stream", <<>>, <<>>,
                          <<[mimetype |-> "video/mp4",
                             filename |-> r.filename,
                             content_length |-> r.filesize,
                             accept_ranges |-> "bytes"]>>),
                 r.calls, r.log, r.byte_stream, "created")
    [] r.exc = "ValueError" ->
         Outcome(Response(400, "json", r.msg, <<>>, <<>>),
                 r.calls, r.log, r.byte_stream, "none")
    [] OTHER ->
         Outcome(Response(500, "json", <<MsgInternal>>, <<>>, <<>>),
                 r.calls, Append(r.log, <<"download API error: ">> \o r.msg),
                 r.byte_stream, "none")

\* GET /api/download up to "return response"
download(video_id, itag, content) ==
  IF Falsy(video_id) \/ Falsy(itag)
  THEN Outcome(Response(400, "json", <<MsgMissingParams>>, <<>>, <<>>),
               <<>>, <<>>, NoByteStream, "none")
  ELSE download_result(stream_video(video_id.val, itag, content))

(***************************************************************************)
(* Inputs                                                                  *)
(***************************************************************************)
Absent == Param(FALSE, <<>>)

VideoIdParams ==
  {Param(FALSE, ""), Param(TRUE, ""), Param(TRUE, "unknownvid1")}
    \cup {Param(TRUE, id) : id \in DOMAIN VideoDB}

ItagParams ==
  {Absent, Param(TRUE, <<>>), Param(TRUE, <<"1","8">>),
   Param(TRUE, <<"2","2">>), Param(TRUE, <<"4","3">>),
   Param(TRUE, <<"5","9">>), Param(TRUE, <<"1","3","7">>),
   Param(TRUE, <<"9","9","9">>)}

Sizes ==
  {k * chunk_size + r : k \in 0..MaxFullChunks, r \in {0, 1, chunk_size - 1}}

\* URLs are put together from parts, so that what a URL is made of is
\* known apart from what the validator finds in it
Schemes == {<<"h","t","t","p","s",":","/","/">>,
            <<"h","t","t","p",":","/","/">>, <<>>}

WwwPrefixes == {<<>>, <<"w","w","w",".">>}

Hosts ==
  ALLOWED_DOMAINS \cup
  { <<"v","i","m","e","o",".","c","o","m">>,
    <<"e","v","i","l","y","o","u","t","u","b","e",".","c","o","m">>,
    <<"m",".","y","o","u","t","u","b","e",".","c","o","m">> }

Paths == {<<"/","w","a","t","c","h","?","v","=">>, <<"/">>}

Ids == { <<"d","Q","w","4","w","9","W","g","X","c","Q">>,
         <<"a","b","_","-","5","6","7","8","9","0","Z">>,
         <<"s","h","o","r","t">>,
         <<"d","Q","w","4","w","9","W","g","X","c","Q","x">>,
         <<"d","Q","w","4","w","!","W","g","X","c","Q">> }

UrlParts == [scheme : Schemes, www : WwwPrefixes, host : Hosts,
             path : Paths, id : Ids]

NoUrl == [scheme |-> <<>>, www |-> <<>>, host |-> <<>>, path |-> <<>>,
          id |-> <<>>]

UrlText(u) == u.scheme \o u.www \o u.host \o u.path \o u.id

(***************************************************************************)
(* State: the operation in hand, its request, and what it produced.        *)
(* Requests share no state, so one worker is followed: it takes a request  *)
(* when it is idle (op = "none"), the response is produced and, for a      *)
(* download, streamed, and the worker becomes idle again.                  *)
(***************************************************************************)
VARIABLES op, req, resp, log, calls, byte_stream, gen, chunks, valid

vars == <<op, req, resp, log, calls, byte_stream, gen, chunks, valid>>

Request(video_id, resolution, url) ==
  [video_id |-> video_id, resolution |-> resolution, url |-> url]

\* the generator is alive: created and not started, or suspended at yield
GenActive == gen \in {"created", "suspended"}

Init ==
  /\ op = "none"
  /\ req = Request(Param(FALSE, ""), Absent, NoUrl)
  /\ resp = NoResponse
  /\ log = <<>>
  /\ calls = <<>>
  /\ byte_stream = NoByteStream
  /\ gen = "none"
  /\ chunks = <<>>
  /\ valid = FALSE

\* the worker takes request rq for operation o, which leaves r behind
Handle(o, rq, r) ==
  /\ op' = o
  /\ req' = rq
  /\ resp' = r.resp
  /\ log' = r.log
  /\ calls' = r.calls
  /\ byte_stream' = r.byte_stream
  /\ gen' = r.gen
  /\ chunks' = <<>>

ValidateUrl ==
  /\ op = "none"
  /\ \E u \in UrlParts :
       /\ Handle("validate", Request(Param(FALSE, ""), Absent, u),
                 Outcome(NoResponse, <<>>, <<>>, NoByteStream, "none"))
       /\ valid' = is_valid_youtube_url(UrlText(u))

VideoInfoRequest ==
  /\ op = "none"
  /\ \E video_id \in VideoIdParams :
       Handle("video_info", Request(video_id, Absent, NoUrl),
              video_info(video_id))
  /\ valid' = FALSE

DownloadRequest ==
  /\ op = "none"
  /\ \E video_id \in VideoIdParams, itag \in ItagParams, content \in Sizes :
       Handle("download", Request(video_id, itag, NoUrl),
              download(video_id, itag, content))
  /\ valid' = FALSE

\* One resumption of generate(): read a chunk; yield it, or leave the loop
\* and close the byte stream
GenerateStep(r) ==
  IF r.chunk[1] = r.chunk[2]
  THEN /\ byte_stream' = Close(r.bs)
       /\ gen' = "done"
       /\ chunks' = chunks
  ELSE /\ byte_stream' = r.bs
       /\ gen' = "suspended"
       /\ chunks' = Append(chunks, r.chunk)

GenerateNext ==
  /\ GenActive
  /\ GenerateStep(Read(byte_stream, chunk_size))
  /\ UNCHANGED <<op, req, resp, log, calls, valid>>

\* The client goes away: the server closes the response, which closes the
\* generator.  A generator that has not started just ends; a suspended one
\* gets GeneratorExit at the yield, which leaves generate() at once.
ClientDisconnect ==
  /\ GenActive
  /\ gen' = "abandoned"
  /\ UNCHANGED <<op, req, resp, log, calls, byte_stream, chunks, valid>>

\* The response has been sent (or the validator has answered): the worker
\* is ready for the next request
Idle ==
  /\ op # "none"
  /\ ~GenActive
  /\ op' = "none"
  /\ req' = Request(Param(FALSE, ""), Absent, NoUrl)
  /\ resp' = NoResponse
  /\ log' = <<>>
  /\ calls' = <<>>
  /\ byte_stream' = NoByteStream
  /\ gen' = "none"
  /\ chunks' = <<>>
  /\ valid' = FALSE

Next ==
  \/ ValidateUrl
  \/ VideoInfoRequest
  \/ DownloadRequest
  \/ GenerateNext
  \/ ClientDisconnect
  \/ Idle

Spec == Init /\ [][Next]_vars

(***************************************************************************)
(* Properties                                                              *)
(***************************************************************************)
Range(s) == {s[i] : i \in 1..Len(s)}

\* a query parameter that is missing or empty
MissingOrEmpty(p) == ~p.present \/ Len(p.val) = 0

\* the video the request in hand names
ReqVideo == YouTube(req.video_id.val)

\* the request in hand reached the extractor, for a video it knows
InfoAsked ==
  /\ op = "video_info"
  /\ ~MissingOrEmpty(req.video_id)
  /\ req.video_id.val \in DOMAIN VideoDB

DownloadAsked ==
  /\ op = "download"
  /\ ~MissingOrEmpty(req.video_id)
  /\ ~MissingOrEmpty(req.resolution)
  /\ req.video_id.val \in DOMAIN VideoDB

\* the response of the download in hand has ended
ResponseEnded == gen \in {"done", "abandoned"}

\* C1: for every download in which stream_video succeeds, the byte source
\* has been closed exactly once when the response has ended, whether the
\* client read every chunk, read some and stopped, or went away before the
\* first read.
C1_ClosedExactlyOnce == ResponseEnded => byte_stream.closes = 1

\* the extractor raised something other than age-restricted / unavailable
\* while the request in hand was served
UnexpectedFailure ==
  /\ InfoAsked \/ DownloadAsked
  /\ ReqVideo.fault.kind \notin
       {"none", "AgeRestrictedError", "VideoUnavailable"}
  /\ \/ ReqVideo.fault.at = "fetch"
     \/ "stream_to_buffer" \in Range(calls)

\* C2: when the extractor fails unexpectedly during /api/video-info or
\* /api/download, the response has status 500 with the generic internal
\* server error message, and the detail of the failure is logged and is
\* not in the response body.
C2_UnexpectedFailureIs500 ==
  UnexpectedFailure =>
    /\ resp.status = 500
    /\ resp.error = <<MsgInternal>>
    /\ \E l \in Range(log) : ReqVideo.fault.detail \in Range(l)
    /\ ReqVideo.fault.detail \notin Range(resp.error)

\* the handles of the descriptor list of the video: its progressive MP4
\* streams
ListedHandles == {s.itag : s \in Range(Filter(ReqVideo.streams))}

\* C3: for every stream handle that is not the handle of a descriptor of
\* the video's descriptor list, /api/download answers 400 with the invalid
\* resolution message and no byte source is allocated.
C3_UnlistedHandleRejected ==
  ( /\ DownloadAsked
    /\ ReqVideo.fault.kind = "none"
    /\ IsIntLiteral(req.resolution)
    /\ DigitsToInt(req.resolution.val) \notin ListedHandles )
  => /\ resp.status = 400
     /\ MsgInvalidResolution \in Range(resp.error)
     /\ byte_stream.allocated = 0

\* the extractor fails when the data of the video are first read
FetchFails == ReqVideo.fault.kind # "none" /\ ReqVideo.fault.at = "fetch"

\* C4: for a video longer than 3600 s /api/video-info answers 400, returns
\* no descriptor and has not asked the extractor for the streams; a video
\* of 3600 s or less passes the check (and, the extractor not failing, is
\* answered with its metadata).
C4_DurationCeiling ==
  InfoAsked =>
    /\ ReqVideo.length > 3600 =>
         /\ resp.status = 400
         /\ resp.info = <<>>
         /\ "streams" \notin Range(calls)
    /\ (ReqVideo.length <= 3600 /\ ~FetchFails) =>
         /\ resp.status = 200
         /\ Len(resp.info) = 1
         /\ resp.info[1].duration = ReqVideo.length
         /\ "streams" \in Range(calls)

\* a video of 3601 s that the extractor resolves was refused
C4_Witness ==
  /\ InfoAsked
  /\ ReqVideo.fault.kind = "none"
  /\ ReqVideo.length = MAX_VIDEO_DURATION + 1
  /\ resp.status = 400
  /\ MsgDuration \in Range(resp.error)

\* C5: /api/video-info without video_id (missing or empty), and
\* /api/download without video_id or resolution, is answered 400 with an
\* error body (for video-info the missing video ID message) and the
\* extractor has not been invoked.
C5_MissingParams ==
  /\ (op = "video_info" /\ MissingOrEmpty(req.video_id)) =>
       /\ resp.status = 400
       /\ resp.error = <<MsgMissingVideoId>>
       /\ calls = <<>>
  /\ ( /\ op = "download"
       /\ MissingOrEmpty(req.video_id) \/ MissingOrEmpty(req.resolution) )
     => /\ resp.status = 400
        /\ Len(resp.error) > 0
        /\ resp.info = <<>>
        /\ calls = <<>>
        /\ byte_stream.allocated = 0

\* a download with a video id and an empty resolution was refused
C5_Witness ==
  /\ op = "download"
  /\ ~MissingOrEmpty(req.video_id)
  /\ req.resolution.present
  /\ Len(req.resolution.val) = 0
  /\ resp.status = 400

\* the URL is made of a scheme, a host of the allow-list and an id of
\* exactly 11 characters of [0-9A-Za-z_-] after "v=" or "/"
WellFormedUrl(u) ==
  /\ u.scheme # <<>>
  /\ u.host \in ALLOWED_DOMAINS
  /\ Len(u.id) = 11
  /\ \A i \in 1..Len(u.id) : u.id[i] \in IdChars

\* C6: is_valid_youtube_url returns true exactly for the URLs whose domain
\* is in the allow-list and which carry a video id of exactly 11
\* characters of [0-9A-Za-z_-] introduced by "v=" or "/".
C6_ValidExactly == op = "validate" => (valid <=> WellFormedUrl(req.url))

\* the file name of the response in hand
RespFilename == resp.headers[1].filename

\* the resolution label of the stream the request in hand asks for
ReqResolution ==
  (CHOOSE s \in Range(ReqVideo.streams) :
     s.itag = DigitsToInt(req.resolution.val)).resolution

Downloading == op = "download" /\ resp.status = 200

FooBarBaz720 ==
  <<"F","o","o"," ","B","a","r","B","a","z","_","7","2","0","p",
    ".","m","p","4">>

FooBarBaz720Spaced ==
  <<"F","o","o"," ","B","a","r"," ","B","a","z","_","7","2","0","p",
    ".","m","p","4">>

\* C7 (as amended): the file name is the title with every character kept
\* that is a word character, hyphen, underscore, period or space, in
\* order, and every other character removed, followed by _<resolution>.mp4;
\* title "Foo: Bar/Baz" at "720p" yields "Foo BarBaz_720p.mp4".
C7_Filename ==
  Downloading =>
    /\ RespFilename =
         SelectSeq(ReqVideo.title, LAMBDA c : c \in KeptChars)
           \o <<"_">> \o ReqResolution \o <<".","m","p","4">>
    /\ (ReqVideo.title = TitleFoo /\ ReqResolution = R720) =>
         RespFilename = FooBarBaz720

\* "Foo: Bar/Baz" was downloaded at 720p
C7_Witness ==
  /\ Downloading
  /\ ReqVideo.title = TitleFoo
  /\ ReqResolution = R720

\* C7 as stated: title "Foo: Bar/Baz" at "720p" yields
\* "Foo Bar Baz_720p.mp4".
C7_SpecExample ==
  (Downloading /\ ReqVideo.title = TitleFoo /\ ReqResolution = R720) =>
    RespFilename = FooBarBaz720Spaced

ChunkLen(c) == c[2] - c[1]

\* C8: on a successful download the chunks emitted are the buffer from
\* offset 0 on, in order: every chunk but the last is 1048576 bytes, no
\* chunk is empty or reaches past the end of the buffer, and when the
\* generator has finished the chunks make up the whole buffer.
C8_Chunks ==
  Downloading =>
    /\ \A i \in 1..Len(chunks) :
         /\ chunks[i][1] = (IF i = 1 THEN 0 ELSE chunks[i - 1][2])
         /\ ChunkLen(chunks[i]) > 0
         /\ chunks[i][2] <= byte_stream.len
         /\ i < Len(chunks) => ChunkLen(chunks[i]) = 1048576
         /\ ChunkLen(chunks[i]) <= 1048576
    /\ gen = "done" =>
         IF Len(chunks) = 0 THEN byte_stream.len = 0
         ELSE chunks[Len(chunks)][2] = byte_stream.len

\* a buffer of more than one chunk, the last one short, was read to its end
C8_Witness ==
  /\ Downloading
  /\ gen = "done"
  /\ Len(chunks) >= 2
  /\ ChunkLen(chunks[Len(chunks)]) < chunk_size

\* the descriptor list of the response in hand
RespStreams == resp.info[1].streams

InfoAnswered == InfoAsked /\ resp.status = 200

OnlyProgressiveMp4 ==
  \A i \in 1..Len(RespStreams) :
    /\ RespStreams[i].type = "MP4"
    /\ \E s \in Range(ReqVideo.streams) :
         /\ s.itag = RespStreams[i].itag
         /\ s.progressive
         /\ s.mime_type[2] = "mp4"

\* C9 (as amended): the streams of a successful get_video_info result are
\* progressive MP4 streams only, in order of resolution descending: the
\* height of each descriptor is greater than or equal to that of the next.
C9_SortedDescending ==
  InfoAnswered =>
    /\ OnlyProgressiveMp4
    /\ \A i \in 1..(Len(RespStreams) - 1) :
         ResolutionKey(RespStreams[i].resolution)
           >= ResolutionKey(RespStreams[i + 1].resolution)

\* a list with a step down in height and two descriptors of one height
C9_Witness ==
  /\ InfoAnswered
  /\ \E i, j \in 1..(Len(RespStreams) - 1) :
       /\ ResolutionKey(RespStreams[i].resolution)
            > ResolutionKey(RespStreams[i + 1].resolution)
       /\ ResolutionKey(RespStreams[j].resolution)
            = ResolutionKey(RespStreams[j + 1].resolution)

\* C9 as stated: the height of each descriptor is strictly greater than
\* that of the next.
C9_StrictlyDescending ==
  InfoAnswered =>
    /\ OnlyProgressiveMp4
    /\ \A i \in 1..(Len(RespStreams) - 1) :
         ResolutionKey(RespStreams[i].resolution)
           > ResolutionKey(RespStreams[i + 1].resolution)

\* C10: for a video longer than 3600 s /api/download answers 400 and the
\* stream content is never put into the in-memory buffer.
C10_DownloadEnforcesCeiling ==
  (DownloadAsked /\ ReqVideo.length > 3600) =>
    /\ resp.status = 400
    /\ byte_stream.allocated = 0
    /\ byte_stream.len = 0

====
